---- MODULE Spec2Model ----
(***************************************************************************)
(* A model of cloud-node's message decoder (message.py) and of its         *)
(* round-based model pipeline (model.py) over the process-wide session     *)
(* state (state.state).                                                    *)
(*                                                                         *)
(* Python values keep a kind tag "k" beside their value "v", so that a     *)
(* str, an int, a null and a float stay different values. A dict is a      *)
(* function from its keys; d[key] on a missing key is a KeyError.          *)
(***************************************************************************)
EXTENDS Integers, Sequences, FiniteSets, TLC

VARIABLES
    state,          \* state.state: session_id, current_round, weights_shape, current_weights
    dirs,           \* the directories that exist under TEMP_FOLDER
    fs,             \* the files that exist under TEMP_FOLDER: path -> content
    keras_session,  \* TRUE while a loaded model sits in the Keras backend session
    crashed,        \* the process died in the middle of a call
    rounds_done,    \* the pipeline rounds the caller completed in this session
    faults_seen,    \* the environment faults that have hit a call so far
    result,         \* the last pipeline call: op, err, ret
    raw,            \* the serialized message handed to Message.make
    decoded         \* what Message.make answered: err, msg

vars == <<state, dirs, fs, keras_session, crashed, rounds_done, faults_seen, result, raw, decoded>>

(***************************************************************************)
(* Bounds of the model.                                                    *)
(***************************************************************************)
MaxMissing == 2      \* keys removed from a well-formed message
MaxWeightsLen == 2   \* entries of results.weights in a serialized message
MaxEntries == 2      \* entries of a shape manifest
MaxRank == 2         \* dimensions of one shape
MaxDim == 2          \* extent of one dimension
MaxFlat == 5         \* length of a flat weight vector
MaxRound == 1        \* rounds a session is followed for
MaxWeights == 2      \* weights a NEW_WEIGHTS message brings to the session
MaxFaults == 1       \* environment faults in one run

(***************************************************************************)
(* Python values.                                                          *)
(***************************************************************************)
PyStr(chars) == [k |-> "str", v |-> chars]
PyInt(n) == [k |-> "int", v |-> n]
PyBool(b) == [k |-> "bool", v |-> b]
PyNone == [k |-> "None", v |-> 0]
PyFloat(n) == [k |-> "float", v |-> n]
PyNaN == [k |-> "nan", v |-> 0]
PyList(items) == [k |-> "list", v |-> items]
PyDict(d) == [k |-> "dict", v |-> d]
PyB64(ok, bytes) == [k |-> "b64text", v |-> [valid |-> ok, bytes |-> bytes]]

\* Python's ==: an int and a float of the same value are equal, NaN equals nothing.
PyEq(a, b) ==
    IF a.k \in {"int", "float"} /\ b.k \in {"int", "float"} THEN a.v = b.v
    ELSE IF a.k = "nan" \/ b.k = "nan" THEN FALSE
    ELSE a = b

Lower == <<"a","b","c","d","e","f","g","h","i","j","k","l","m",
           "n","o","p","q","r","s","t","u","v","w","x","y","z">>
Capital == <<"A","B","C","D","E","F","G","H","I","J","K","L","M",
             "N","O","P","Q","R","S","T","U","V","W","X","Y","Z">>

\* str.upper(), character by character.
UpperChar(c) ==
    IF \E i \in 1..Len(Lower) : Lower[i] = c
    THEN Capital[CHOOSE i \in 1..Len(Lower) : Lower[i] = c]
    ELSE c
str_upper(chars) == [i \in 1..Len(chars) |-> UpperChar(chars[i])]

\* float(s) of the strings a message carries: the digits parse, the rest do not.
Digits == <<"0","1","2","3","4","5","6","7","8","9">>
IsDigit(c) == \E i \in 1..Len(Digits) : Digits[i] = c
DigitValue(c) == (CHOOSE i \in 1..Len(Digits) : Digits[i] = c) - 1
RECURSIVE ParseDigits(_, _)
ParseDigits(chars, acc) ==
    IF chars = <<>> THEN acc
    ELSE ParseDigits(Tail(chars), 10 * acc + DigitValue(Head(chars)))
StrIsNumber(chars) == chars # <<>> /\ \A i \in 1..Len(chars) : IsDigit(chars[i])

(***************************************************************************)
(* message.py                                                              *)
(***************************************************************************)
NoMsg == [cls |-> "none"]
Raise(e) == [err |-> e, msg |-> NoMsg]
Return(m) == [err |-> "none", msg |-> m]
Has(d, key) == key \in DOMAIN d

\* np.array(items, dtype=float) of one entry.
CanFloat(x) ==
    \/ x.k \in {"int", "float", "bool", "None"}
    \/ x.k = "str" /\ StrIsNumber(x.v)
ToFloat(x) ==
    CASE x.k \in {"int", "float"} -> PyFloat(x.v)
      [] x.k = "bool" -> PyFloat(IF x.v THEN 1 ELSE 0)
      [] x.k = "None" -> PyNaN
      [] x.k = "str" -> PyFloat(ParseDigits(x.v, 0))

\* np.array(weights, dtype=np.dtype(float)) of a list.
np_array_float(w) ==
    IF w.k # "list" THEN [err |-> "TypeError", arr |-> <<>>]
    ELSE IF \E i \in 1..Len(w.v) : ~CanFloat(w.v[i])
         THEN [err |-> "ValueError", arr |-> <<>>]
         ELSE [err |-> "none", arr |-> [i \in 1..Len(w.v) |-> ToFloat(w.v[i])]]

\* MessageType: the type tags, as the strings they are.
RegistrationMessage_type == <<"R","E","G","I","S","T","E","R">>
NewSessionMessage_type == <<"N","E","W","_","S","E","S","S","I","O","N">>
NewWeightsMessage_type == <<"N","E","W","_","W","E","I","G","H","T","S">>

\* __init__ without .upper()
RegistrationMessage_init_as_sent(m) ==
    IF ~Has(m, "node_type") THEN Raise("KeyError")
    ELSE IF m["node_type"].k # "str" THEN Raise("AttributeError")
    ELSE Return([cls |-> "RegistrationMessage",
                 type |-> RegistrationMessage_type,
                 node_type |-> m["node_type"]])

RegistrationMessage_init(m) ==
    IF ~Has(m, "node_type") THEN Raise("KeyError")
    ELSE IF m["node_type"].k # "str" THEN Raise("AttributeError")
    ELSE Return([cls |-> "RegistrationMessage",
                 type |-> RegistrationMessage_type,
                 node_type |-> PyStr(str_upper(m["node_type"].v))])

NewSessionKeys ==
    <<"repo_id", "h5_model", "hyperparams", "selection_criteria",
      "continuation_criteria", "termination_criteria">>

NewSessionMessage_init(m) ==
    IF \E i \in 1..Len(NewSessionKeys) : ~Has(m, NewSessionKeys[i])
    THEN Raise("KeyError")
    ELSE Return([cls |-> "NewSessionMessage",
                 type |-> NewSessionMessage_type,
                 repo_id |-> m["repo_id"],
                 h5_model |-> m["h5_model"],
                 hyperparams |-> m["hyperparams"],
                 selection_criteria |-> m["selection_criteria"],
                 continuation_criteria |-> m["continuation_criteria"],
                 termination_criteria |-> m["termination_criteria"]])

NewWeightsMessage_init(m) ==
    IF \E key \in {"session_id", "round", "action", "results"} : ~Has(m, key)
    THEN Raise("KeyError")
    ELSE IF m["results"].k # "dict" THEN Raise("TypeError")
    ELSE IF ~Has(m["results"].v, "weights") THEN Raise("KeyError")
    ELSE LET a == np_array_float(m["results"].v["weights"]) IN
         IF a.err # "none" THEN Raise(a.err)
         ELSE IF ~Has(m["results"].v, "omega") THEN Raise("KeyError")
         ELSE Return([cls |-> "NewWeightsMessage",
                      type |-> NewWeightsMessage_type,
                      session_id |-> m["session_id"],
                      round |-> m["round"],
                      action |-> m["action"],
                      weights |-> a.arr,
                      omega |-> m["results"].v["omega"]])

\* cls.type == type: a str equals a str of the same characters and nothing else.
TypeIs(x, tag) == x.k = "str" /\ x.v = tag

\* make without its last line: a type no subclass has falls to the first subclass.
Message_make_no_raise(m) ==
    IF ~Has(m, "type") THEN Raise("KeyError")
    ELSE CASE TypeIs(m["type"], NewSessionMessage_type) -> NewSessionMessage_init(m)
           [] TypeIs(m["type"], NewWeightsMessage_type) -> NewWeightsMessage_init(m)
           [] OTHER -> RegistrationMessage_init(m)

\* Message.make: the first subclass whose type equals the message's type.
Message_make(m) ==
    IF ~Has(m, "type") THEN Raise("KeyError")
    ELSE CASE TypeIs(m["type"], RegistrationMessage_type) -> RegistrationMessage_init(m)
           [] TypeIs(m["type"], NewSessionMessage_type) -> NewSessionMessage_init(m)
           [] TypeIs(m["type"], NewWeightsMessage_type) -> NewWeightsMessage_init(m)
           [] OTHER -> Raise("ValueError: Message type is invalid!")

(***************************************************************************)
(* model.py: the slicing loop of swap_weights. A tensor is its shape and   *)
(* its elements by index tuple (0-based, as numpy indexes them).           *)
(***************************************************************************)
Min(a, b) == IF a < b THEN a ELSE b

\* seq[a:b] of Python for 0 <= a <= b: a slice stops at the end of the list.
PySlice(seq, a, b) == SubSeq(seq, Min(a, Len(seq)) + 1, Min(b, Len(seq)))

\* reduce(lambda x, y: x*y, shape), on a shape of at least one dimension.
RECURSIVE reduce_mul(_)
reduce_mul(shape) ==
    IF Len(shape) = 1 THEN shape[1]
    ELSE reduce_mul(SubSeq(shape, 1, Len(shape) - 1)) * shape[Len(shape)]

\* The index tuples of an array of this shape.
Extent(shape) == CHOOSE d \in {shape[i] : i \in 1..Len(shape)} :
                     \A i \in 1..Len(shape) : shape[i] <= d
Indices(shape) ==
    {idx \in [1..Len(shape) -> 0..Extent(shape)] : \A i \in 1..Len(shape) : idx[i] < shape[i]}

\* Where numpy keeps element idx of a C-ordered array: the last index runs fastest.
RECURSIVE RowMajorOffset(_, _)
RowMajorOffset(idx, shape) ==
    IF Len(shape) = 1 THEN idx[1]
    ELSE RowMajorOffset(SubSeq(idx, 1, Len(idx) - 1), SubSeq(shape, 1, Len(shape) - 1))
             * shape[Len(shape)] + idx[Len(idx)]

\* np.array(slice) then ndarray.resize(shape) in place: the buffer is kept in
\* order, and a buffer that is too short is filled up with zeros.
np_resize(slice, shape) ==
    [shape |-> shape,
     data |-> [idx \in Indices(shape) |->
                  IF RowMajorOffset(idx, shape) < Len(slice)
                  THEN slice[RowMajorOffset(idx, shape) + 1]
                  ELSE PyFloat(0)]]

\* The loop with `start += size` left out: every tensor is cut from the front.
RECURSIVE swap_loop_no_advance(_, _, _, _)
swap_loop_no_advance(weights_flat, weights_shape, i, start) ==
    IF i > Len(weights_shape) THEN <<>>
    ELSE LET shape == weights_shape[i].shape
             size == reduce_mul(shape)
             weights_np == np_resize(PySlice(weights_flat, start, start + size), shape)
         IN  <<weights_np>> \o swap_loop_no_advance(weights_flat, weights_shape, i + 1, start)

\* for shape_data in weights_shape: ... weights.append(weights_np); start += size
RECURSIVE swap_loop(_, _, _, _)
swap_loop(weights_flat, weights_shape, i, start) ==
    IF i > Len(weights_shape) THEN <<>>
    ELSE LET shape == weights_shape[i].shape
             size == reduce_mul(shape)
             weights_np == np_resize(PySlice(weights_flat, start, start + size), shape)
         IN  <<weights_np>> \o swap_loop(weights_flat, weights_shape, i + 1, start + size)

\* The shapes of a list of tensors, and of a manifest.
ShapesOf(tensors) == [i \in 1..Len(tensors) |-> tensors[i].shape]
ManifestShapes(weights_shape) == [i \in 1..Len(weights_shape) |-> weights_shape[i].shape]

(***************************************************************************)
(* The files under TEMP_FOLDER. A path is <TEMP_FOLDER>/<session>/<file>   *)
(* or <TEMP_FOLDER>/<session>/<round>/<file>; round -1 is "no round".      *)
(***************************************************************************)
NoRound == 0 - 1
SessionDir(sid) == [session |-> sid, round |-> NoRound]
RoundDir(sid, r) == [session |-> sid, round |-> r]
FilePath(sid, r, file, n) == [session |-> sid, round |-> r, file |-> file, n |-> n]
\* model_path + '/model.h5' and model_path + '/model{}.h5'.format(round)
InitialH5Path(sid) == FilePath(sid, NoRound, "model.h5", NoRound)
RoundH5Path(sid, r) == FilePath(sid, NoRound, "model{}.h5", r)
ModelJsonPath(d) == FilePath(d.session, d.round, "model.json", NoRound)
ShardPath(d) == FilePath(d.session, d.round, "group1-shard1of1.bin", NoRound)
MetadataPath(d) == FilePath(d.session, d.round, "metadata.json", NoRound)

H5Model(tensors) == [k |-> "h5", tensors |-> tensors]
JunkBytes == [k |-> "junk"]
PartialFile == [k |-> "partial"]
ModelJson(manifest) == [k |-> "model.json", weightsManifest |-> manifest]
ShardBin == [k |-> "bin", dtype |-> "uint16"]
Metadata(sid, r) == [k |-> "metadata.json", session_id |-> sid, current_round |-> r]

Exists(files, p) == p \in DOMAIN files
WriteFile(files, p, content) ==
    [q \in DOMAIN files \cup {p} |-> IF q = p THEN content ELSE files[q]]

\* keras.models.load_model(path) answers a model when the file is a whole h5 model.
CanLoad(files, p) == Exists(files, p) /\ files[p].k = "h5"

\* The weightsManifest[0]["weights"] the converter writes for a model: a name and
\* a shape for each weight tensor, in order.
ManifestOf(tensors) == [i \in 1..Len(tensors) |-> [name |-> i, shape |-> tensors[i].shape]]

\* What environment fault, if any, hits a call.
Faults == {"none", "convert_reject", "convert_partial",
           "crash_h5", "crash_convert", "crash_metadata"}

\* The outcome of a call: the state, files and directories it leaves, whether a
\* model stays in the Keras session, whether the process died, the exception
\* and the value returned.
Outcome(st, files, ds, ks, dead, err, ret) ==
    [state |-> st, fs |-> files, dirs |-> ds, keras_session |-> ks,
     crashed |-> dead, err |-> err, ret |-> ret]

(***************************************************************************)
(* model.py: the pipeline functions, each from the state, files and        *)
(* directories it starts in to the outcome it leaves.                      *)
(***************************************************************************)
NoPath == <<>>

\* _keras_2_tfjs: load the model, let the converter write path_to_save, then
\* K.clear_session(). An exception of load_model or of the converter leaves
\* the function before K.clear_session().
_keras_2_tfjs(h5_model_path, path_to_save, st, files, ds, ks, fault) ==
    IF ~CanLoad(files, h5_model_path)
    THEN Outcome(st, files, ds, ks, FALSE, "OSError", NoPath)
    ELSE LET model == files[h5_model_path]
             made == ds \cup {path_to_save}
             shard == WriteFile(files, ShardPath(path_to_save), ShardBin)
         IN  CASE fault = "convert_reject" ->
                    Outcome(st, files, ds, TRUE, FALSE, "ConverterError", NoPath)
               [] fault = "convert_partial" ->
                    Outcome(st, shard, made, TRUE, FALSE, "ConverterError", NoPath)
               [] fault = "crash_convert" ->
                    Outcome(st, WriteFile(shard, ModelJsonPath(path_to_save), PartialFile),
                            made, FALSE, TRUE, "crash", NoPath)
               [] OTHER ->
                    Outcome(st,
                            WriteFile(shard, ModelJsonPath(path_to_save),
                                      ModelJson(ManifestOf(model.tensors))),
                            made, FALSE, FALSE, "none", NoPath)

\* The helper with the round after the converted one in its metadata record.
_convert_and_save_model_next_round(h5_model_path, st, files, ds, ks, fault) ==
    LET session_id == st.session_id
        round == st.current_round
        converted_model_path == RoundDir(session_id, round)
        c == _keras_2_tfjs(h5_model_path, converted_model_path, st, files, ds, ks, fault)
    IN  IF c.err # "none" THEN c
        ELSE LET model_json == c.fs[ModelJsonPath(converted_model_path)]
                 st2 == [st EXCEPT !.weights_shape = model_json.weightsManifest]
                 metadata == Metadata(session_id, round + 1)
             IN  IF fault = "crash_metadata"
                 THEN Outcome(st2,
                              WriteFile(c.fs, MetadataPath(converted_model_path), PartialFile),
                              c.dirs, FALSE, TRUE, "crash", NoPath)
                 ELSE Outcome(st2,
                              WriteFile(c.fs, MetadataPath(converted_model_path), metadata),
                              c.dirs, c.keras_session, FALSE, "none",
                              <<converted_model_path>>)

\* _convert_and_save_model: convert into <session_id>/<current_round>, record the
\* manifest of model.json in state.state["weights_shape"], write metadata.json.
_convert_and_save_model(h5_model_path, st, files, ds, ks, fault) ==
    LET session_id == st.session_id
        round == st.current_round
        converted_model_path == RoundDir(session_id, round)
        c == _keras_2_tfjs(h5_model_path, converted_model_path, st, files, ds, ks, fault)
    IN  IF c.err # "none" THEN c
        ELSE LET model_json == c.fs[ModelJsonPath(converted_model_path)]
                 st2 == [st EXCEPT !.weights_shape = model_json.weightsManifest]
                 metadata == Metadata(session_id, round)
             IN  IF fault = "crash_metadata"
                 THEN Outcome(st2,
                              WriteFile(c.fs, MetadataPath(converted_model_path), PartialFile),
                              c.dirs, FALSE, TRUE, "crash", NoPath)
                 ELSE Outcome(st2,
                              WriteFile(c.fs, MetadataPath(converted_model_path), metadata),
                              c.dirs, c.keras_session, FALSE, "none",
                              <<converted_model_path>>)

\* base64.b64decode(text): the bytes of a well-padded text, binascii.Error otherwise.
b64decode(text) ==
    IF text.v.valid THEN [err |-> "none", bytes |-> text.v.bytes]
    ELSE [err |-> "binascii.Error", bytes |-> JunkBytes]

\* convert_and_save_b64model(base64_h5_model)
convert_and_save_b64model(base64_h5_model, st, files, ds, ks, fault) ==
    LET session_id == st.session_id
        model_path == SessionDir(session_id)
        made == ds \cup {model_path}
        h5_model_path == InitialH5Path(session_id)
        h5_model_bytes == b64decode(base64_h5_model)
    IN  IF h5_model_bytes.err # "none"
        THEN Outcome(st, files, made, ks, FALSE, h5_model_bytes.err, NoPath)
        ELSE IF fault = "crash_h5"
        THEN Outcome(st, WriteFile(files, h5_model_path, PartialFile), made,
                     FALSE, TRUE, "crash", NoPath)
        ELSE _convert_and_save_model(h5_model_path, st,
                                     WriteFile(files, h5_model_path, h5_model_bytes.bytes),
                                     made, ks, fault)

\* convert_and_save_model with line 54 left out: the model file is that of the argument.
convert_and_save_model_of_argument(round_arg, st, files, ds, ks, fault) ==
    LET session_id == st.session_id
        h5_model_path == RoundH5Path(session_id, round_arg)
    IN  _convert_and_save_model(h5_model_path, st, files, ds, ks, fault)

\* convert_and_save_model converting into the directory of its argument, and
\* recording the argument in the metadata.
convert_and_save_model_into_argument(round_arg, st, files, ds, ks, fault) ==
    LET session_id == st.session_id
        h5_model_path == RoundH5Path(session_id, st.current_round)
        o == _convert_and_save_model(h5_model_path, [st EXCEPT !.current_round = round_arg],
                                     files, ds, ks, fault)
    IN  [o EXCEPT !.state.current_round = st.current_round]

\* convert_and_save_model advancing current_round itself once it has converted.
convert_and_save_model_advancing(round_arg, st, files, ds, ks, fault) ==
    LET h5_model_path == RoundH5Path(st.session_id, st.current_round)
        o == _convert_and_save_model(h5_model_path, st, files, ds, ks, fault)
    IN  IF o.err = "none" THEN [o EXCEPT !.state.current_round = @ + 1] ELSE o

\* convert_and_save_model(round): the argument is replaced by current_round.
convert_and_save_model(round_arg, st, files, ds, ks, fault) ==
    LET session_id == st.session_id
        round == st.current_round
        h5_model_path == RoundH5Path(session_id, round)
    IN  _convert_and_save_model(h5_model_path, st, files, ds, ks, fault)

\* model.set_weights(weights): Keras takes as many arrays as the model has
\* weights, each of the shape of the weight it replaces.
CanSetWeights(model, weights) == ShapesOf(weights) = ShapesOf(model.tensors)

\* The model file swap_weights loads: model_path + '/model.h5', in every round.
swap_weights_h5_model_path(st) == InitialH5Path(st.session_id)

\* swap_weights saving over model.h5 in round 0, as if the first round had no number.
swap_weights_over_initial(st, files, ds, ks, fault) ==
    LET h5_model_path == swap_weights_h5_model_path(st)
    IN  IF ~CanLoad(files, h5_model_path)
        THEN Outcome(st, files, ds, ks, FALSE, "OSError", NoPath)
        ELSE LET model == files[h5_model_path]
                 weights == swap_loop(st.current_weights, st.weights_shape, 1, 0)
                 round == st.current_round
                 new_h5_model_path == IF round = 0 THEN h5_model_path
                                      ELSE RoundH5Path(st.session_id, round)
             IN  IF ~CanSetWeights(model, weights)
                 THEN Outcome(st, files, ds, TRUE, FALSE, "ValueError", NoPath)
                 ELSE IF fault = "crash_h5"
                 THEN Outcome(st, WriteFile(files, new_h5_model_path, PartialFile), ds,
                              FALSE, TRUE, "crash", NoPath)
                 ELSE Outcome(st, WriteFile(files, new_h5_model_path, H5Model(weights)),
                              ds, FALSE, FALSE, "none", NoPath)

\* swap_weights()
swap_weights(st, files, ds, ks, fault) ==
    LET model_path == SessionDir(st.session_id)
        h5_model_path == swap_weights_h5_model_path(st)
    IN  IF ~CanLoad(files, h5_model_path)
        THEN Outcome(st, files, ds, ks, FALSE, "OSError", NoPath)
        ELSE LET model == files[h5_model_path]
                 weights_flat == st.current_weights
                 weights_shape == st.weights_shape
                 weights == swap_loop(weights_flat, weights_shape, 1, 0)
                 round == st.current_round
                 new_h5_model_path == RoundH5Path(st.session_id, round)
             IN  IF ~CanSetWeights(model, weights)
                 THEN Outcome(st, files, ds, TRUE, FALSE, "ValueError", NoPath)
                 ELSE IF fault = "crash_h5"
                 THEN Outcome(st, WriteFile(files, new_h5_model_path, PartialFile), ds,
                              FALSE, TRUE, "crash", NoPath)
                 ELSE Outcome(st, WriteFile(files, new_h5_model_path, H5Model(weights)),
                              ds, FALSE, FALSE, "none", NoPath)

(***************************************************************************)
(* Serialized messages: a tag, the keys of one of the three shapes, and    *)
(* some of the keys removed.                                               *)
(***************************************************************************)
Chars_library == <<"l","i","b","r","a","r","y">>
Chars_Library == <<"L","i","b","r","a","r","y">>
Chars_LIBRARY == <<"L","I","B","R","A","R","Y">>
Chars_dashboard == <<"d","a","s","h","b","o","a","r","d">>
Chars_register == <<"r","e","g","i","s","t","e","r">>
Chars_PING == <<"P","I","N","G">>

TypeTags ==
    {PyStr(RegistrationMessage_type), PyStr(NewSessionMessage_type),
     PyStr(NewWeightsMessage_type), PyStr(Chars_register), PyStr(Chars_PING)}
NodeTypes ==
    {PyStr(Chars_library), PyStr(Chars_Library), PyStr(Chars_LIBRARY),
     PyStr(Chars_dashboard), PyInt(5)}

\* The entries results.weights may hold: numbers, a string of digits, a string
\* that is no number, null and a boolean.
WeightItems ==
    {PyInt(1), PyFloat(2), PyStr(<<"7">>), PyStr(<<"x">>), PyNone, PyBool(TRUE)}
WeightLists == {PyList(l) : l \in UNION {[1..n -> WeightItems] : n \in 0..MaxWeightsLen}}

\* The h5 models a session may start from, by the shapes of their weights.
ZeroTensor(shape) == np_resize(<<>>, shape)
ModelA == H5Model(<<ZeroTensor(<<2>>)>>)
ModelB == H5Model(<<ZeroTensor(<<1>>)>>)
\* h5_model texts: the Base64 of a model, the Base64 of bytes that are no model,
\* and a text that is no Base64.
H5Texts == {PyB64(TRUE, ModelA), PyB64(TRUE, ModelB), PyB64(TRUE, JunkBytes),
            PyB64(FALSE, JunkBytes)}

MessageShapes == {"REGISTER", "NEW_SESSION", "NEW_WEIGHTS"}
Payloads(shape) ==
    CASE shape = "REGISTER" -> NodeTypes
      [] shape = "NEW_SESSION" -> H5Texts
      [] shape = "NEW_WEIGHTS" -> WeightLists
OuterKeys(shape) ==
    CASE shape = "REGISTER" -> {"type", "node_type"}
      [] shape = "NEW_SESSION" ->
            {"type"} \cup {NewSessionKeys[i] : i \in 1..Len(NewSessionKeys)}
      [] shape = "NEW_WEIGHTS" -> {"type", "session_id", "round", "action", "results"}
InnerKeys(shape) == IF shape = "NEW_WEIGHTS" THEN {"weights", "omega"} ELSE {}
Remove(d, keys) == [key \in DOMAIN d \ keys |-> d[key]]

\* The message of this shape with every key present, but for `inner`, the keys
\* removed from results.
FullMessage(tag, shape, payload, inner) ==
    CASE shape = "REGISTER" -> [type |-> tag, node_type |-> payload]
      [] shape = "NEW_SESSION" ->
            [type |-> tag,
             repo_id |-> PyStr(<<"r","1">>),
             h5_model |-> payload,
             hyperparams |-> PyDict([batch_size |-> PyInt(8)]),
             selection_criteria |-> PyDict([type |-> PyStr(<<"A","L","L">>)]),
             continuation_criteria |-> PyDict([type |-> PyStr(<<"P","C","T">>)]),
             termination_criteria |-> PyDict([type |-> PyStr(<<"M","A","X">>)])]
      [] shape = "NEW_WEIGHTS" ->
            [type |-> tag,
             session_id |-> PyStr(<<"s","1">>),
             round |-> PyInt(1),
             action |-> PyStr(<<"T","R","A","I","N">>),
             results |-> PyDict(Remove([weights |-> payload, omega |-> PyFloat(3)], inner))]

Serialized(tag, shape, payload, missing) ==
    Remove(FullMessage(tag, shape, payload, missing \cap InnerKeys(shape)),
           missing \cap OuterKeys(shape))

\* A well-formed NEW_WEIGHTS message carrying these numbers.
NewWeightsOf(numbers) ==
    Serialized(PyStr(NewWeightsMessage_type), "NEW_WEIGHTS", PyList(numbers), {})

(***************************************************************************)
(* Shape manifests and flat vectors for the slicing loop.                  *)
(***************************************************************************)
\* A shape has 1..MaxRank extents of 1..MaxDim; <<0>> stands for the shapes
\* with an extent of 0, which hold no element whatever their rank.
TensorShapes == UNION {[1..r -> 1..MaxDim] : r \in 1..MaxRank} \cup {<<0>>}

\* The lists of at most n shapes that take at most `budget` elements together.
RECURSIVE ShapeLists(_, _)
ShapeLists(n, budget) ==
    IF n = 0 THEN {<<>>}
    ELSE {<<>>} \cup
         UNION {{<<sh>> \o rest : rest \in ShapeLists(n - 1, budget - reduce_mul(sh))} :
                sh \in {t \in TensorShapes : reduce_mul(t) <= budget}}

ManifestFrom(shapes) == [i \in 1..Len(shapes) |-> [name |-> i, shape |-> shapes[i]]]

\* sum of the products of the manifest's shapes
RECURSIVE Required(_)
Required(weights_shape) ==
    IF weights_shape = <<>> THEN 0
    ELSE reduce_mul(Head(weights_shape).shape) + Required(Tail(weights_shape))

\* The flat vector 1.0, 2.0, ..., n.0: every element differs from the others.
Iota(n) == [i \in 1..n |-> PyFloat(i)]

(***************************************************************************)
(* state.py and the callers of the pipeline.                               *)
(***************************************************************************)
SessionIds == {"s1"}
Rounds == 0..MaxRound

\* state.init(): every field at its zero value.
ZeroState ==
    [session_id |-> "", current_round |-> 0, weights_shape |-> <<>>,
     current_weights |-> <<>>]

NoFiles == [q \in {} |-> PartialFile]
NoResult == [op |-> "none", err |-> "none", ret |-> NoPath]
NoMessage == [q \in {} |-> PyNone]
NotDecoded == Raise("not decoded")

\* The exceptions that come of an environment fault.
FaultErrors == {"ConverterError", "crash"}
CanFault(fault) == fault = "none" \/ faults_seen < MaxFaults

Apply(op, o) ==
    /\ state' = o.state
    /\ fs' = o.fs
    /\ dirs' = o.dirs
    /\ keras_session' = o.keras_session
    /\ crashed' = o.crashed
    /\ result' = [op |-> op, err |-> o.err, ret |-> o.ret]
    /\ faults_seen' = IF o.err \in FaultErrors THEN faults_seen + 1 ELSE faults_seen

state_init ==
    /\ ~crashed
    /\ state' = ZeroState
    /\ rounds_done' = 0
    /\ result' = NoResult
    /\ UNCHANGED <<dirs, fs, keras_session, crashed, faults_seen, raw, decoded>>

\* A NEW_SESSION message arrives: the state is reset and takes the new session's id.
SessionStart(sid) ==
    /\ ~crashed
    /\ SessionDir(sid) \notin dirs
    /\ state' = [ZeroState EXCEPT !.session_id = sid]
    /\ rounds_done' = 0
    /\ result' = NoResult
    /\ UNCHANGED <<dirs, fs, keras_session, crashed, faults_seen, raw, decoded>>

\* A NEW_WEIGHTS message arrives: it is decoded and its weights become current_weights.
HandleNewWeights(n) ==
    /\ ~crashed
    /\ LET m == Message_make(NewWeightsOf([i \in 1..n |-> PyInt(i)])) IN
        /\ m.err = "none"
        /\ state' = [state EXCEPT !.current_weights = m.msg.weights]
    /\ UNCHANGED <<dirs, fs, keras_session, crashed, rounds_done, faults_seen, result, raw, decoded>>

\* The round is over: current_round advances once the conversion has succeeded.
AdvanceRound ==
    /\ ~crashed
    /\ result.op = "convert_and_save_model" /\ result.err = "none"
    /\ state.current_round < MaxRound
    /\ state' = [state EXCEPT !.current_round = @ + 1]
    /\ rounds_done' = rounds_done + 1
    /\ result' = [op |-> "advance_round", err |-> "none", ret |-> NoPath]
    /\ UNCHANGED <<dirs, fs, keras_session, crashed, faults_seen, raw, decoded>>

CallConvertAndSaveB64Model(text, fault) ==
    /\ ~crashed
    /\ CanFault(fault)
    /\ Apply("convert_and_save_b64model",
             convert_and_save_b64model(text, state, fs, dirs, keras_session, fault))
    /\ UNCHANGED <<rounds_done, raw, decoded>>

CallConvertAndSaveModel(round_arg, fault) ==
    /\ ~crashed
    /\ CanFault(fault)
    /\ Apply("convert_and_save_model",
             convert_and_save_model(round_arg, state, fs, dirs, keras_session, fault))
    /\ UNCHANGED <<rounds_done, raw, decoded>>

CallSwapWeights(fault) ==
    /\ ~crashed
    /\ CanFault(fault)
    /\ Apply("swap_weights", swap_weights(state, fs, dirs, keras_session, fault))
    /\ UNCHANGED <<rounds_done, raw, decoded>>

Init ==
    /\ state = ZeroState
    /\ dirs = {}
    /\ fs = NoFiles
    /\ keras_session = FALSE
    /\ crashed = FALSE
    /\ rounds_done = 0
    /\ faults_seen = 0
    /\ result = NoResult
    /\ raw = NoMessage
    /\ decoded = NotDecoded

\* The callers run the pipeline for a session that has been started.
Started == state.session_id # ZeroState.session_id

Next ==
    \/ state_init
    \/ \E sid \in SessionIds : SessionStart(sid)
    \/ \E n \in 1..MaxWeights : HandleNewWeights(n)
    \/ AdvanceRound
    \/ \E text \in H5Texts, fault \in Faults :
          Started /\ CallConvertAndSaveB64Model(text, fault)
    \/ \E round_arg \in Rounds, fault \in Faults :
          Started /\ CallConvertAndSaveModel(round_arg, fault)
    \/ \E fault \in Faults : Started /\ CallSwapWeights(fault)

Spec == Init /\ [][Next]_vars

\* The pipeline called with no session started since init().
NextMisuse ==
    \/ state_init
    \/ \E n \in 1..MaxWeights : HandleNewWeights(n)
    \/ \E text \in H5Texts, fault \in Faults : CallConvertAndSaveB64Model(text, fault)
    \/ \E round_arg \in Rounds, fault \in Faults : CallConvertAndSaveModel(round_arg, fault)
    \/ \E fault \in Faults : CallSwapWeights(fault)

SpecMisuse == Init /\ [][NextMisuse]_vars

(***************************************************************************)
(* Message.make on its own: a serialized message is drawn, then decoded.   *)
(***************************************************************************)
InitDecode ==
    /\ state = ZeroState
    /\ dirs = {}
    /\ fs = NoFiles
    /\ keras_session = FALSE
    /\ crashed = FALSE
    /\ rounds_done = 0
    /\ faults_seen = 0
    /\ result = NoResult
    /\ decoded = NotDecoded
    /\ \E tag \in TypeTags, shape \in MessageShapes :
         \E payload \in Payloads(shape),
            missing \in SUBSET (OuterKeys(shape) \cup InnerKeys(shape)) :
             /\ Cardinality(missing) <= MaxMissing
             /\ raw = Serialized(tag, shape, payload, missing)

Make ==
    /\ decoded = NotDecoded
    /\ decoded' = Message_make(raw)
    /\ UNCHANGED <<state, dirs, fs, keras_session, crashed, rounds_done, faults_seen,
                   result, raw>>

NextDecode == Make

SpecDecode == InitDecode /\ [][NextDecode]_vars

(***************************************************************************)
(* swap_weights on its own: a session whose model.h5 has been converted,   *)
(* so that weights_shape is the manifest of that model, and a flat vector  *)
(* as long as the manifest requires, one shorter or one longer.            *)
(***************************************************************************)
ZeroModel(shapes) == H5Model([i \in 1..Len(shapes) |-> ZeroTensor(shapes[i])])
Near(n) == {m \in {n - 1, n, n + 1} : 0 <= m}
\* The manifest of a 2x2 tensor followed by a tensor of 3.
ScenarioShapes == <<(<<2, 2>>), (<<3>>)>>

InitReshape ==
    /\ dirs = {SessionDir("s1")}
    /\ keras_session = FALSE
    /\ crashed = FALSE
    /\ rounds_done = 0
    /\ faults_seen = 0
    /\ result = NoResult
    /\ raw = NoMessage
    /\ decoded = NotDecoded
    /\ \E shapes \in {ScenarioShapes} \cup ShapeLists(MaxEntries, MaxFlat) :
         \E n \in Near(Required(ManifestFrom(shapes))) :
             /\ fs = WriteFile(NoFiles, InitialH5Path("s1"), ZeroModel(shapes))
             /\ state = [session_id |-> "s1", current_round |-> 0,
                         weights_shape |-> ManifestFrom(shapes),
                         current_weights |-> Iota(n)]

NextReshape == \E fault \in Faults : CallSwapWeights(fault)

SpecReshape == InitReshape /\ [][NextReshape]_vars

(***************************************************************************)
(* Flattening, for the claims: the elements of a tensor in C order, the    *)
(* n-th of them found by dividing n by the extents from the last one on.   *)
(***************************************************************************)
RECURSIVE Numel(_)
Numel(shape) == IF shape = <<>> THEN 1 ELSE Head(shape) * Numel(Tail(shape))

RECURSIVE Unravel(_, _)
Unravel(n, shape) ==
    IF shape = <<>> THEN <<>>
    ELSE Unravel(n \div shape[Len(shape)], SubSeq(shape, 1, Len(shape) - 1))
             \o <<n % shape[Len(shape)]>>

Flatten(t) == [n \in 1..Numel(t.shape) |-> t.data[Unravel(n - 1, t.shape)]]

RECURSIVE FlattenAll(_)
FlattenAll(tensors) ==
    IF tensors = <<>> THEN <<>> ELSE Flatten(Head(tensors)) \o FlattenAll(Tail(tensors))

RECURSIVE TotalNumel(_)
TotalNumel(weights_shape) ==
    IF weights_shape = <<>> THEN 0
    ELSE Numel(Head(weights_shape).shape) + TotalNumel(Tail(weights_shape))

\* The last call was swap_weights and the process lived through it.
Swapped == result.op = "swap_weights" /\ result.err # "crash"
\* The file swap_weights writes in this state.
SwapTarget == RoundH5Path(state.session_id, state.current_round)
OffByOne ==
    \/ Len(state.current_weights) = TotalNumel(state.weights_shape) - 1
    \/ Len(state.current_weights) = TotalNumel(state.weights_shape) + 1

\* A step of one of the three pipeline functions.
SwapStep == \E fault \in Faults : CallSwapWeights(fault)
B64Step == \E text \in H5Texts, fault \in Faults : CallConvertAndSaveB64Model(text, fault)
ConvertStep ==
    \E round_arg \in Rounds, fault \in Faults : CallConvertAndSaveModel(round_arg, fault)
PipelineStep == SwapStep \/ B64Step \/ ConvertStep
\* The step ended in an exception (the process did not die in it).
Failed == result'.err \notin {"none", "crash"}

\* C1: with a flat vector one element shorter or longer than the manifest
\* requires, swap_weights fails with an error and mutates nothing: it writes no
\* round model file and changes no field of the session state.
C1_ShapeMismatchDetected ==
    [][(SwapStep /\ OffByOne /\ result'.err # "crash")
         => (Failed /\ fs' = fs /\ state' = state)]_vars

Artifacts(sid) == {d \in dirs : d.session = sid /\ d.round # NoRound}
Tagged(d) ==
    /\ Exists(fs, MetadataPath(d))
    /\ fs[MetadataPath(d)] = Metadata(d.session, d.round)

\* C3: after N completed pipeline rounds of a session, current_round is N and
\* exactly N converted artifacts exist, each tagged with its session and its
\* round index.
C3_RoundMonotonicity ==
    (Started /\ ~crashed) =>
        /\ state.current_round = rounds_done
        /\ Cardinality(Artifacts(state.session_id)) = rounds_done
        /\ \A d \in Artifacts(state.session_id) : Tagged(d)

\* The model file does not load, the converter turns the model down, or Keras
\* turns the tensors down.
RejectedStep == result'.err \in {"OSError", "ConverterError", "ValueError"}

\* C4: a pipeline call that ends in such an error leaves the session state, the
\* files and the directories as they were.
C4_FailureLeavesLastGood ==
    [][(PipelineStep /\ RejectedStep) => (state' = state /\ fs' = fs /\ dirs' = dirs)]_vars

\* C8: whenever a pipeline call has returned or raised, no model is left in
\* the Keras session.
C8_SessionReleased == ~keras_session

\* C9: no file at a published path is ever a partially written one.
C9_NoPartialFile == \A q \in DOMAIN fs : fs[q] # PartialFile

\* C10: a pipeline call made while the session state holds only its zero
\* values ends in an error, before any file or directory is written and before
\* a model is loaded.
C10_StateErrorBeforeIO ==
    [][(PipelineStep /\ state = ZeroState)
         => (Failed /\ fs' = fs /\ dirs' = dirs /\ keras_session' = keras_session)]_vars

(***************************************************************************)
(* Message.make                                                            *)
(***************************************************************************)
Decoded == decoded # NotDecoded
IsTagged(tag) == Has(raw, "type") /\ TypeIs(raw["type"], tag)
Recognized ==
    \/ IsTagged(RegistrationMessage_type)
    \/ IsTagged(NewSessionMessage_type)
    \/ IsTagged(NewWeightsMessage_type)

\* The required keys the message lacks, those of results among them.
MissingKeys ==
    CASE IsTagged(RegistrationMessage_type) -> {"node_type"} \ DOMAIN raw
      [] IsTagged(NewSessionMessage_type) ->
            {NewSessionKeys[i] : i \in 1..Len(NewSessionKeys)} \ DOMAIN raw
      [] IsTagged(NewWeightsMessage_type) ->
            ({"session_id", "round", "action", "results"} \ DOMAIN raw)
            \cup (IF Has(raw, "results")
                  THEN {"weights", "omega"} \ DOMAIN raw["results"].v
                  ELSE {})
      [] OTHER -> {}

\* An entry that is a text and no number.
NotANumber(x) == x.k = "str" /\ ~StrIsNumber(x.v)
\* The message lacks only results.omega and its weights do not convert.
OmegaAfterBadWeights ==
    /\ IsTagged(NewWeightsMessage_type)
    /\ MissingKeys = {"omega"}
    /\ \E i \in 1..Len(raw["results"].v["weights"].v) :
          NotANumber(raw["results"].v["weights"].v[i])

UnknownTypeRejected ==
    (Has(raw, "type") /\ ~Recognized)
        => decoded = Raise("ValueError: Message type is invalid!")

\* C5 as claimed: an unknown type is a ValueError, and a recognized type with a
\* required key missing is a KeyError; no message is returned.
C5_Original ==
    Decoded =>
        /\ UnknownTypeRejected
        /\ (Recognized /\ MissingKeys # {}) => decoded = Raise("KeyError")

\* C5, amended: an unknown type is a ValueError; a recognized type with a
\* required key missing is a KeyError, but for a NEW_WEIGHTS message that lacks
\* only results.omega and whose weights do not convert to float, which is the
\* ValueError of the conversion; no message is returned in any of these cases.
C5_Rejection ==
    Decoded =>
        /\ UnknownTypeRejected
        /\ (Recognized /\ MissingKeys # {}) =>
              decoded = Raise(IF OmegaAfterBadWeights THEN "ValueError" ELSE "KeyError")

\* C5's case: a NEW_WEIGHTS message without results.omega was turned down.
C5_Witness ==
    /\ Decoded
    /\ IsTagged(NewWeightsMessage_type)
    /\ MissingKeys = {"omega"}
    /\ decoded = Raise("KeyError")

\* The fields are typed as the message shapes declare: node_type a string,
\* weights a sequence of numbers.
WellTyped ==
    /\ IsTagged(RegistrationMessage_type) => raw["node_type"].k = "str"
    /\ IsTagged(NewWeightsMessage_type) =>
          \A i \in 1..Len(raw["results"].v["weights"].v) :
              raw["results"].v["weights"].v[i].k \in {"int", "float"}

\* What a role reads in capitals.
InCapitals(chars) ==
    CASE chars \in {Chars_library, Chars_Library, Chars_LIBRARY} -> Chars_LIBRARY
      [] chars = Chars_dashboard -> <<"D","A","S","H","B","O","A","R","D">>

FieldsKept ==
    CASE IsTagged(RegistrationMessage_type) ->
            decoded.msg.node_type = PyStr(InCapitals(raw["node_type"].v))
      [] IsTagged(NewSessionMessage_type) ->
            \A i \in 1..Len(NewSessionKeys) :
                decoded.msg[NewSessionKeys[i]] = raw[NewSessionKeys[i]]
      [] IsTagged(NewWeightsMessage_type) ->
            /\ \A key \in {"session_id", "round", "action"} : decoded.msg[key] = raw[key]
            /\ decoded.msg.omega = raw["results"].v["omega"]
            /\ Len(decoded.msg.weights) = Len(raw["results"].v["weights"].v)
            /\ \A i \in 1..Len(decoded.msg.weights) :
                  PyEq(decoded.msg.weights[i], raw["results"].v["weights"].v[i])

\* C6: a message of one of the three shapes with every required key present
\* decodes, to the variant of its type, with every field equal to the one sent
\* but for node_type, which is in capitals.
C6_DecoderTotality ==
    (Decoded /\ Recognized /\ MissingKeys = {} /\ WellTyped) =>
        /\ decoded.err = "none"
        /\ decoded.msg.type = raw["type"].v
        /\ FieldsKept

\* C6's case: {type: "REGISTER", node_type: "library"} was decoded to LIBRARY.
C6_Witness ==
    /\ Decoded
    /\ IsTagged(RegistrationMessage_type)
    /\ MissingKeys = {}
    /\ raw["node_type"] = PyStr(Chars_library)
    /\ decoded.err = "none"
    /\ decoded.msg.node_type = PyStr(Chars_LIBRARY)

\* C7: a NEW_SESSION message whose h5_model is no Base64, and a NEW_WEIGHTS
\* message with an entry of weights that is no number, are turned down by
\* Message.make; a decoded NEW_SESSION message carries the decoded bytes.
C7_ValidatedAtConstruction ==
    (Decoded /\ Recognized /\ MissingKeys = {}) =>
        /\ (IsTagged(NewSessionMessage_type) /\ ~raw["h5_model"].v.valid)
              => decoded.err # "none"
        /\ (IsTagged(NewSessionMessage_type) /\ decoded.err = "none")
              => decoded.msg.h5_model.k # "b64text"
        /\ (IsTagged(NewWeightsMessage_type)
               /\ \E i \in 1..Len(raw["results"].v["weights"].v) :
                     raw["results"].v["weights"].v[i].k \notin {"int", "float"})
              => decoded.err # "none"

(***************************************************************************)
(* The flat vector against the recorded manifest.                          *)
(***************************************************************************)
\* C11: whenever a session is active, a manifest has been recorded and a
\* NEW_WEIGHTS message has been stored, current_weights is as long as the sum
\* of the products of the shapes of weights_shape.
C11_LengthMatchesManifest ==
    (Started /\ ~crashed
       /\ state.weights_shape # ZeroState.weights_shape
       /\ state.current_weights # ZeroState.current_weights)
    => Len(state.current_weights) = TotalNumel(state.weights_shape)

(***************************************************************************)
(* What a round's update is built from.                                    *)
(***************************************************************************)
\* The model file and the converted directory of the round before this one.
PreviousRoundH5 == RoundH5Path(state.session_id, state.current_round - 1)
PreviousRoundDir == RoundDir(state.session_id, state.current_round - 1)

\* C12: a swap_weights that succeeds in a round after the first has loaded the
\* model file written for the round before, and has cut the vector by the
\* manifest that round's conversion recorded.
C12_BuildsOnPreviousRound ==
    [][(SwapStep /\ state.current_round >= 1 /\ result'.err = "none")
         => /\ swap_weights_h5_model_path(state) = PreviousRoundH5
            /\ Exists(fs, ModelJsonPath(PreviousRoundDir))
            /\ ShapesOf(fs'[SwapTarget].tensors)
                 = ManifestShapes(fs[ModelJsonPath(PreviousRoundDir)].weightsManifest)]_vars

\* The manifest has an entry whose shape holds no element.
HasEmptyEntry(weights_shape) ==
    \E i \in 1..Len(weights_shape) : Numel(weights_shape[i].shape) = 0

\* C13: with a manifest entry of product 0, swap_weights ends in an error and
\* writes no model file.
C13_EmptyShapeFailsFast ==
    [][(SwapStep /\ HasEmptyEntry(state.weights_shape) /\ result'.err # "crash")
         => (Failed /\ fs' = fs)]_vars

(***************************************************************************)
(* The persisted layout, with the session state written freely between     *)
(* the calls: two sessions, any round, in any order.                       *)
(***************************************************************************)
LayoutSessions == {"s1", "s2"}
LayoutRounds == {0, 1}

\* A write of the fields session_id and current_round of state.state.
WriteState(sid, r) ==
    /\ ~crashed
    /\ state' = [state EXCEPT !.session_id = sid, !.current_round = r]
    /\ UNCHANGED <<dirs, fs, keras_session, crashed, rounds_done, faults_seen, result,
                   raw, decoded>>

\* The faults that bear on metadata.json: none, and a crash while it is written.
LayoutFaults == {"none", "crash_metadata"}

\* The initial model of each session: session s2 trains a model of another shape.
LayoutText(sid) == IF sid = "s2" THEN PyB64(TRUE, ModelB) ELSE PyB64(TRUE, ModelA)

NextLayout ==
    \/ \E sid \in LayoutSessions, r \in LayoutRounds : WriteState(sid, r)
    \/ \E fault \in LayoutFaults :
          Started /\ CallConvertAndSaveB64Model(LayoutText(state.session_id), fault)
    \/ \E round_arg \in Rounds, fault \in LayoutFaults :
          Started /\ CallConvertAndSaveModel(round_arg, fault)
    \/ Started /\ CallSwapWeights("none")

SpecLayout == Init /\ [][NextLayout]_vars

\* The metadata records on disk: the files metadata.json that were written whole.
MetadataRecords == {q \in DOMAIN fs : q.file = "metadata.json" /\ fs[q] # PartialFile}

\* C14: every metadata record at <TEMP_FOLDER>/<s>/<r>/metadata.json holds
\* session_id = s and current_round = r.
C14_MetadataMatchesPath ==
    \A q \in MetadataRecords :
        /\ fs[q].session_id = q.session
        /\ fs[q].current_round = q.round

\* C14's case: records of two sessions and of two rounds of one session are on disk.
C14_Witness ==
    /\ \E q1, q2 \in MetadataRecords : q1.session # q2.session
    /\ \E q1, q2 \in MetadataRecords : q1.session = q2.session /\ q1.round # q2.round

(***************************************************************************)
(* The files swap_weights reads and writes.                                *)
(***************************************************************************)
\* C15: swap_weights succeeds only by loading <session_id>/model.h5, fails with
\* nothing written when that file does not load, and writes no file but
\* <session_id>/model<current_round>.h5: model.h5 and every other file are as
\* they were, in round 0 as in any other.
C15_SwapWritesOnlyRoundFile ==
    [][SwapStep =>
        /\ (result'.err = "none") =>
              /\ CanLoad(fs, InitialH5Path(state.session_id))
              /\ Exists(fs', SwapTarget) /\ fs'[SwapTarget].k = "h5"
        /\ ~CanLoad(fs, InitialH5Path(state.session_id)) =>
              (result'.err = "OSError" /\ fs' = fs)
        /\ DOMAIN fs' \subseteq DOMAIN fs \cup {SwapTarget}
        /\ \A q \in DOMAIN fs : q # SwapTarget => fs'[q] = fs[q]
        /\ dirs' = dirs]_vars

\* C15's case: swap_weights has saved round 0's file while the file of round 1
\* was on disk, and model.h5 is still a model.
C15_Witness ==
    /\ Swapped /\ result.err = "none"
    /\ state.current_round = 0
    /\ Exists(fs, RoundH5Path(state.session_id, 0))
    /\ Exists(fs, RoundH5Path(state.session_id, 1))
    /\ CanLoad(fs, InitialH5Path(state.session_id))

(***************************************************************************)
(* swap_weights, then convert_and_save_model.                              *)
(***************************************************************************)
\* The last pipeline call was a swap_weights that succeeded, and the model file
\* of the state's session and round is on disk.
JustSwapped ==
    /\ result.op = "swap_weights" /\ result.err = "none"
    /\ Exists(fs, SwapTarget)
\* The directory convert_and_save_model fills in this state.
ConvertTarget == RoundDir(state.session_id, state.current_round)
\* The converted output in ConvertTarget is that of this model.
ConvertedFrom(model, files) ==
    /\ Exists(files, ModelJsonPath(ConvertTarget))
    /\ files[ModelJsonPath(ConvertTarget)] = ModelJson(ManifestOf(model.tensors))
    /\ Exists(files, MetadataPath(ConvertTarget))
    /\ files[MetadataPath(ConvertTarget)]
         = Metadata(state.session_id, state.current_round)

\* C16: a convert_and_save_model that follows swap_weights in the same session
\* and round converts the file swap_weights wrote, into the directory of that
\* round; in a state whose session and round have no model<round>.h5, because
\* they are not those swap_weights wrote for, it finds no file and converts
\* nothing.
C16_ConvertsWhatWasSwapped ==
    [][ConvertStep =>
        /\ JustSwapped =>
              /\ result'.err \in {"none", "ConverterError", "crash"}
              /\ (result'.err = "none") =>
                    /\ result'.ret = <<ConvertTarget>>
                    /\ ConvertedFrom(fs[SwapTarget], fs')
                    /\ state'.weights_shape = ManifestOf(fs[SwapTarget].tensors)
        /\ ~Exists(fs, SwapTarget) => (result'.err = "OSError" /\ fs' = fs)]_vars

\* C16's case: round 1's model was swapped in and then converted into directory 1.
C16_Witness ==
    /\ result.op = "convert_and_save_model" /\ result.err = "none"
    /\ state.current_round = 1
    /\ Exists(fs, SwapTarget)
    /\ ConvertedFrom(fs[SwapTarget], fs)

(***************************************************************************)
(* The round argument of convert_and_save_model.                           *)
(***************************************************************************)
\* What convert_and_save_model(round_arg) would leave, called in this state.
ConvertOutcome(round_arg, fault) ==
    convert_and_save_model(round_arg, state, fs, dirs, keras_session, fault)

FrameMessages ==
    {Serialized(PyStr(RegistrationMessage_type), "REGISTER", PyStr(Chars_library), {}),
     NewWeightsOf(<<PyInt(1)>>)}

\* The lengths of the vectors that arrive: that of ModelA's weights, and one less.
FrameLengths == {1, 2}

InitFrame ==
    /\ state = ZeroState
    /\ dirs = {}
    /\ fs = NoFiles
    /\ keras_session = FALSE
    /\ crashed = FALSE
    /\ rounds_done = 0
    /\ faults_seen = 0
    /\ result = NoResult
    /\ decoded = NotDecoded
    /\ raw \in FrameMessages

NextFrame ==
    \/ Make
    \/ \E sid \in SessionIds : SessionStart(sid)
    \/ \E n \in FrameLengths : HandleNewWeights(n)
    \/ \E text \in H5Texts, fault \in Faults :
          Started /\ CallConvertAndSaveB64Model(text, fault)
    \/ \E round_arg \in Rounds, fault \in Faults :
          Started /\ CallConvertAndSaveModel(round_arg, fault)
    \/ \E fault \in Faults : Started /\ CallSwapWeights(fault)

SpecFrame == InitFrame /\ [][NextFrame]_vars

\* The step wrote weights_shape, and the converter had written the model.json
\* that holds the manifest written.
WroteManifestOfConversion ==
    /\ Exists(fs', ModelJsonPath(ConvertTarget))
    /\ fs'[ModelJsonPath(ConvertTarget)] = ModelJson(state'.weights_shape)

\* C18: a pipeline call leaves session_id, current_round and current_weights as
\* they were, and writes weights_shape only with the manifest of a conversion
\* that succeeded; swap_weights and a call that raises write no field; decoding
\* a message writes no field of the session state, no file and no directory.
C18_OnlyWeightsShapeWritten ==
    [][/\ PipelineStep =>
            /\ state'.session_id = state.session_id
            /\ state'.current_round = state.current_round
            /\ state'.current_weights = state.current_weights
            /\ (state'.weights_shape # state.weights_shape) => WroteManifestOfConversion
            /\ (SwapStep \/ Failed) => state' = state
       /\ Make => (state' = state /\ fs' = fs /\ dirs' = dirs)]_vars

\* C18's case: a message has been decoded in a session whose conversion has
\* recorded a manifest.
C18_Witness ==
    /\ Decoded /\ decoded.err = "none"
    /\ result.op = "convert_and_save_model" /\ result.err = "none"
    /\ state.weights_shape # ZeroState.weights_shape
    /\ state.current_weights # ZeroState.current_weights

====
